---- MODULE Spec2Model ----
(***************************************************************************)
(* js-clients: the tiny GraphQL query compiler                             *)
(* (packages/tiny-graphql-query-compiler/src/index.ts) and the useAction   *)
(* hook of the React bindings (run function and processResult), and the    *)
(* mock urql transport of the test suite (newMockOperationFn), and the     *)
(* SignedInOrRedirect component.                                           *)
(*                                                                         *)
(* JavaScript values are modelled as follows.                              *)
(*   - an object with insertion-ordered string keys is a sequence of       *)
(*     entries [k |-> key, v |-> value] with distinct keys;                *)
(*   - an optional value (T | undefined | null) is a sequence of length    *)
(*     at most one: << >> is null/undefined, <<x>> is x;                   *)
(*   - a string the compiler builds is a sequence of lexical tokens        *)
(*     [t |-> class, s |-> text]; token texts are real strings, built with *)
(*     the same concatenations as the template literals of the source;     *)
(*   - a thrown exception is the field `threw` of a result.                *)
(***************************************************************************)
EXTENDS Integers, Sequences, FiniteSets, TLC

VARIABLES
  operation,      \* the BuilderOperation handed to the compiler
  compiled,       \* outcome of the last compile / compileWithVariableValues call
  action,         \* the ActionFunction descriptor given to useAction
  pc,             \* the run function: "idle", "awaiting" (runMutation pending),
                  \* "rejected" (it threw), "resolved" (it returned)
  callVariables,  \* the variables of the current call of the run function
  inflight,       \* the variables runMutation was invoked with, while pending
  response,       \* the urql result runMutation resolved with
  returned,       \* the ActionHookState the run function returned
  calls,          \* how many times runMutation has been invoked
  subjects,       \* mock transport: operation key -> index of its subject in
                  \* streams, 0 when the key has no entry
  streams,        \* the subjects made so far: the results each has emitted
                  \* and whether it has completed
  requests,       \* the execute calls made so far: key, the subject whose
                  \* source was returned, and the state of the abort signal
  thrown,         \* the exception raised by the last transport step
  session,        \* SignedInOrRedirect: what useSession returns now
  auth,           \* the auth configuration of the Provider, if any
  redirected,     \* the `redirected` state of the component
  lastRender,     \* the last render: the values it read and what it returned
  effectDeps,     \* the dependencies of the last effect that was committed
  pendingEffect,  \* the last render left an effect to run
  assigned,       \* the arguments of the window.location.assign calls
  renders         \* how many times the component has rendered

compilerVars == <<operation, compiled>>
actionVars == <<action, pc, callVariables, inflight, response, returned, calls>>
transportVars == <<subjects, streams, requests, thrown>>
componentVars == <<session, auth, redirected, lastRender, effectDeps, pendingEffect,
                   assigned, renders>>
vars == <<operation, compiled, action, pc, callVariables, inflight, response, returned, calls,
          subjects, streams, requests, thrown,
          session, auth, redirected, lastRender, effectDeps, pendingEffect, assigned, renders>>

-----------------------------------------------------------------------------
(* Insertion-ordered JavaScript objects                                    *)

Keys(obj) == {obj[i].k : i \in 1..Len(obj)}

Has(obj, key) == key \in Keys(obj)

Get(obj, key) == obj[CHOOSE i \in 1..Len(obj) : obj[i].k = key].v

\* obj[key] = value: an existing key keeps its position, a new key is appended
Put(obj, key, value) ==
  IF Has(obj, key)
    THEN [i \in 1..Len(obj) |-> IF obj[i].k = key THEN [k |-> key, v |-> value] ELSE obj[i]]
    ELSE Append(obj, [k |-> key, v |-> value])

RECURSIVE ObjectAssign(_, _)
ObjectAssign(target, source) ==
  IF source = << >> THEN target
  ELSE ObjectAssign(Put(target, Head(source).k, Head(source).v), Tail(source))

-----------------------------------------------------------------------------
(* Values of a selection tree                                              *)

True == [kind |-> "boolean", b |-> TRUE]
False == [kind |-> "boolean", b |-> FALSE]
Null == [kind |-> "null"]
Undefined == [kind |-> "undefined"]
Number(n) == [kind |-> "number", n |-> n]
String(chars) == [kind |-> "string", chars |-> chars]
Selection(fields) == [kind |-> "FieldSelection", fields |-> fields]

\* class FieldCall: args is an object, subselection an optional FieldSelection
FieldCall(args, subselection) ==
  [kind |-> "FieldCall", args |-> args, subselection |-> subselection]

\* class Variable: name and value are optional
Variable(type, name, value) ==
  [kind |-> "Variable", type |-> type, name |-> name, value |-> value]

Call(args, subselection) == FieldCall(args, subselection)

Var(options) == Variable(options.type, options.name, options.value)

present(variable) == variable.value # << >>

-----------------------------------------------------------------------------
(* Tokens of the compiled text                                             *)

Tok(t, s) == [t |-> t, s |-> s]

Indent == Tok("indent", "  ")

RECURSIVE Join(_, _)
Join(parts, sep) ==
  IF parts = << >> THEN << >>
  ELSE IF Len(parts) = 1 THEN parts[1]
  ELSE parts[1] \o <<sep>> \o Join(Tail(parts), sep)

\* a line of the flatMap result: `false`, or a string (a token sequence)
FalseLine == [falsy |-> TRUE, toks |-> << >>]
Line(toks) == [falsy |-> FALSE, toks |-> toks]

\* !!value of a flatMap element: false and the empty string are falsy
Truthy(line) == ~line.falsy /\ line.toks # << >>

-----------------------------------------------------------------------------
(* compileFieldSelection                                                   *)

Ok(items) == [threw |-> "none", items |-> items]
Threw(error) == [threw |-> error, items |-> << >>]

\* one rendered argument: `${name}: ${value instanceof Variable ? ... : JSON.stringify(value)}`
ArgSignature(name, value) ==
  <<Tok("arg", name), Tok("colon", ": "),
    IF value.kind = "Variable"
      THEN Tok("varref", "$" \o (IF value.name # << >> THEN value.name[1] ELSE name))
      ELSE Tok("json", ToString(value.n))>>

\* the rendered argument list of a FieldCall
CallArgs(call, onlyPresentVariableValues) ==
  LET notNull == SelectSeq(call.args, LAMBDA e : e.v.kind \notin {"null", "undefined"})
      entries == IF onlyPresentVariableValues
                   THEN SelectSeq(notNull,
                          LAMBDA e : IF e.v.kind = "Variable" THEN present(e.v) ELSE TRUE)
                   ELSE notNull
      signatures == [i \in 1..Len(entries) |-> ArgSignature(entries[i].k, entries[i].v)]
  IN IF Len(signatures) > 0
       THEN <<Tok("lparen", "(")>> \o Join(signatures, Tok("comma", ", ")) \o <<Tok("rparen", ")")>>
       ELSE << >>

RECURSIVE compileFieldSelection(_, _)
RECURSIVE FlatMapFields(_, _)

\* the callback of flatMap: the lines one entry of the selection yields
CompileField(field, value, onlyPresentVariableValues) ==
  IF value.kind = "boolean" THEN
    Ok(<<IF value.b THEN Line(IF field = "" THEN << >> ELSE <<Tok("name", field)>>)
         ELSE FalseLine>>)
  ELSE IF value.kind = "FieldCall" THEN
    LET args == CallArgs(value, onlyPresentVariableValues)
    IN IF value.subselection # << >>
         THEN LET sub == compileFieldSelection(value.subselection[1], onlyPresentVariableValues)
              IN IF sub.threw # "none" THEN sub
                 ELSE Ok(<<Line(<<Tok("name", field)>> \o args \o <<Tok("open", " {")>>)>>
                         \o sub.items \o <<Line(<<Tok("close", "}")>>)>>)
         ELSE Ok(<<Line(<<Tok("name", field)>> \o args)>>)
  ELSE
    LET sub == compileFieldSelection(value, onlyPresentVariableValues)
    IN IF sub.threw # "none" THEN sub
       ELSE Ok(<<Line(<<Tok("name", field), Tok("open", " {")>>)>>
               \o sub.items \o <<Line(<<Tok("close", "}")>>)>>)

FlatMapFields(entries, onlyPresentVariableValues) ==
  IF entries = << >> THEN Ok(<< >>)
  ELSE LET first == CompileField(Head(entries).k, Head(entries).v, onlyPresentVariableValues)
       IN IF first.threw # "none" THEN first
          ELSE LET rest == FlatMapFields(Tail(entries), onlyPresentVariableValues)
               IN IF rest.threw # "none" THEN rest
                  ELSE Ok(first.items \o rest.items)

\* compileFieldSelection without its .filter((value) => !!value)
compileFieldSelection_NoFilter(fields, onlyPresentVariableValues) ==
  IF fields.kind \in {"null", "undefined"} THEN Threw("TypeError")
  ELSE IF fields.kind = "string" /\ fields.chars # << >> THEN Threw("RangeError")
  ELSE LET entries == IF fields.kind = "FieldSelection" THEN fields.fields ELSE << >>
           mapped == FlatMapFields(entries, onlyPresentVariableValues)
       IN IF mapped.threw # "none" THEN mapped
          ELSE Ok([i \in 1..Len(mapped.items) |-> Line(<<Indent>> \o mapped.items[i].toks)])

\* compileFieldSelection with a shape check that rejects a number
compileFieldSelection_RejectsNumber(fields, onlyPresentVariableValues) ==
  IF fields.kind \in {"null", "undefined"} THEN Threw("TypeError")
  ELSE IF fields.kind = "string" /\ fields.chars # << >> THEN Threw("RangeError")
  ELSE IF fields.kind = "number" THEN Threw("CompileError")
  ELSE LET entries == IF fields.kind = "FieldSelection" THEN fields.fields ELSE << >>
           mapped == FlatMapFields(entries, onlyPresentVariableValues)
       IN IF mapped.threw # "none" THEN mapped
          ELSE LET kept == SelectSeq(mapped.items, Truthy)
               IN Ok([i \in 1..Len(kept) |-> Line(<<Indent>> \o kept[i].toks)])

\* Object.entries(fields) of whatever value reaches compileFieldSelection:
\*   null / undefined        TypeError (cannot convert to object)
\*   a number, ""            no entries
\*   a non-empty string      one entry per character, each a non-empty string that
\*                           takes the final else branch again: the recursion never
\*                           returns and the engine raises RangeError
compileFieldSelection(fields, onlyPresentVariableValues) ==
  IF fields.kind \in {"null", "undefined"} THEN Threw("TypeError")
  ELSE IF fields.kind = "string" /\ fields.chars # << >> THEN Threw("RangeError")
  ELSE LET entries == IF fields.kind = "FieldSelection" THEN fields.fields ELSE << >>
           mapped == FlatMapFields(entries, onlyPresentVariableValues)
       IN IF mapped.threw # "none" THEN mapped
          ELSE LET kept == SelectSeq(mapped.items, Truthy)
               IN Ok([i \in 1..Len(kept) |-> Line(<<Indent>> \o kept[i].toks)])

-----------------------------------------------------------------------------
(* extractVariables                                                        *)

RECURSIVE NextCount(_, _, _)
NextCount(variables, name, count) ==
  IF Has(variables, name \o ToString(count))
    THEN NextCount(variables, name, count + 1)
    ELSE count

nextName(variables, name) ==
  IF Has(variables, name)
    THEN name \o ToString(NextCount(variables, name, 1))
    ELSE name

\* the inner forEach over value.args
RECURSIVE ExtractArgs(_, _)
ExtractArgs(variables, args) ==
  IF args = << >> THEN variables
  ELSE LET name == Head(args).k
           value == Head(args).v
       IN ExtractArgs(
            IF value.kind = "Variable"
              THEN Put(variables,
                       IF value.name # << >> THEN value.name[1] ELSE nextName(variables, name),
                       value)
              ELSE variables,
            Tail(args))

RECURSIVE extractVariables(_, _)
RECURSIVE ExtractFields(_, _)

\* the outer forEach over the entries of fields
ExtractFields(variables, entries) ==
  IF entries = << >> THEN variables
  ELSE LET value == Head(entries).v
       IN ExtractFields(
            IF value.kind = "FieldCall" THEN ExtractArgs(variables, value.args)
            ELSE IF value.kind = "FieldSelection"
              THEN ObjectAssign(variables, extractVariables(value, FALSE))
            ELSE variables,
            Tail(entries))

\* the final loop deletes every entry whose variable.value == null
extractVariables(fields, onlyPresentVariableValues) ==
  LET variables == ExtractFields(<< >>, fields.fields)
  IN IF onlyPresentVariableValues
       THEN SelectSeq(variables, LAMBDA e : e.v.value # << >>)
       ELSE variables

-----------------------------------------------------------------------------
(* compileVariables, compile, compileWithVariableValues                    *)

compileVariables(op, onlyPresentVariableValues) ==
  LET variables == extractVariables(op.fields, onlyPresentVariableValues)
      signatures == [i \in 1..Len(variables) |->
                       <<Tok("vardecl", "$" \o variables[i].k), Tok("colon", ": "),
                         Tok("type", variables[i].v.type)>>]
  IN IF Len(variables) = 0 THEN << >>
     ELSE <<Tok("lparen", "(")>> \o Join(signatures, Tok("comma", ", ")) \o <<Tok("rparen", ")")>>

\* the document: its first line, the body lines, the closing brace
compile(op, onlyPresentVariableValues) ==
  LET signature == compileVariables(op, onlyPresentVariableValues)
      directives == IF Len(op.directives) > 0
                      THEN <<Tok("space", " ")>>
                           \o Join([i \in 1..Len(op.directives) |-> <<Tok("directive", op.directives[i])>>],
                                   Tok("space", " "))
                      ELSE << >>
      body == compileFieldSelection(op.fields, onlyPresentVariableValues)
  IN IF body.threw # "none" THEN [threw |-> body.threw, text |-> << >>]
     ELSE [threw |-> "none",
           text |-> <<<<Tok("keyword", op.type), Tok("space", " "),
                        Tok("opname", IF op.name # << >> THEN op.name[1] ELSE "")>>
                      \o signature \o directives \o <<Tok("open", " {")>>>>
                    \o [i \in 1..Len(body.items) |-> body.items[i].toks]
                    \o <<<<Tok("close", "}")>>>>]

\* compileWithVariableValues extracting without the presence filter
compileWithVariableValues_Unfiltered(op) ==
  LET variables == extractVariables(op.fields, FALSE)
      query == compile(op, TRUE)
  IN IF query.threw # "none" THEN [threw |-> query.threw, query |-> << >>, variables |-> << >>]
     ELSE [threw |-> "none",
           query |-> query.text,
           variables |-> [i \in 1..Len(variables) |->
                            [k |-> variables[i].k, v |-> variables[i].v.value]]]

compileWithVariableValues(op) ==
  LET variables == extractVariables(op.fields, TRUE)
      query == compile(op, TRUE)
  IN IF query.threw # "none" THEN [threw |-> query.threw, query |-> << >>, variables |-> << >>]
     ELSE [threw |-> "none",
           query |-> query.text,
           variables |-> [i \in 1..Len(variables) |->
                            [k |-> variables[i].k, v |-> variables[i].v.value]]]

-----------------------------------------------------------------------------
(* The operations handed to the compiler                                   *)

\* total number of fields (keys of all selections) of an operation
MaxFields == 3

\* the i-th key of a selection, in insertion order
FieldName(i) == "f" \o ToString(i)

Fields(values) == [i \in 1..Len(values) |-> [k |-> FieldName(i), v |-> values[i]]]

\* leaves of the selections without field calls: the allowed booleans and
\* nullish values, and the malformed number and string leaves
ShapeLeaves == {True, False, Null, Undefined, Number(5), String(<< >>), String(<<"x">>)}

\* the argument objects of the field calls without a subselection
ArgObjects ==
  { <<[k |-> "id", v |-> Var([type |-> "ID", name |-> << >>, value |-> << >>])]>>,
    <<[k |-> "id", v |-> Var([type |-> "ID", name |-> << >>, value |-> <<1>>])]>>,
    <<[k |-> "id", v |-> Var([type |-> "ID", name |-> << >>, value |-> <<2>>])]>>,
    <<[k |-> "first", v |-> Number(7)], [k |-> "skip", v |-> Null],
      [k |-> "id", v |-> Var([type |-> "ID", name |-> << >>, value |-> << >>])]>>,
    <<[k |-> "id", v |-> Var([type |-> "ID", name |-> <<"id">>, value |-> <<3>>])]>> }

\* the argument objects of the field calls with a subselection
SubselectionArgObjects ==
  { << >>,
    <<[k |-> "id", v |-> Var([type |-> "ID", name |-> << >>, value |-> <<1>>])]>> }

RECURSIVE ValueLists(_, _, _, _)

\* the values whose own selections hold at most n fields
Values(leaves, args, subArgs, n) ==
  LET selections == {Selection(Fields(l)) : l \in ValueLists(leaves, args, subArgs, n)}
  IN leaves \cup selections
     \cup {Call(a, << >>) : a \in args}
     \cup {Call(a, <<sel>>) : a \in subArgs, sel \in selections}

\* the sequences of values that hold at most n fields, their own included
ValueLists(leaves, args, subArgs, n) ==
  IF n = 0 THEN {<< >>}
  ELSE {<< >>} \cup
       UNION {{<<v>> \o rest : v \in Values(leaves, args, subArgs, k),
                               rest \in ValueLists(leaves, args, subArgs, n - 1 - k)}
              : k \in 0..(n - 1)}

\* selections of booleans, nullish and malformed leaves and nested selections;
\* selections of `true`, field calls and nested selections
FieldSelections ==
  {Selection(Fields(l)) : l \in ValueLists(ShapeLeaves, {}, {}, MaxFields)}
  \cup {Selection(Fields(l)) :
          l \in ValueLists({True}, ArgObjects, SubselectionArgObjects, MaxFields)}

BuilderOperation(fields) ==
  [type |-> "query", fields |-> fields, name |-> << >>, directives |-> << >>]

NotCalled == [call |-> "none", onlyPresentVariableValues |-> FALSE, threw |-> "none",
              query |-> << >>, variables |-> << >>]

-----------------------------------------------------------------------------
(* useAction: the run function and processResult                           *)

Object(fields) == [kind |-> "object", fields |-> fields]
Array(items) == [kind |-> "array", items |-> items]

\* obj[key] read as an optional: a missing key, null and undefined are << >>
GetOpt(obj, key) ==
  IF Has(obj, key) /\ Get(obj, key).kind \notin {"null", "undefined"}
    THEN <<Get(obj, key)>>
    ELSE << >>

\* get(object, path) of api-client-core: the value at the path, if any
RECURSIVE get(_, _)
get(object, path) ==
  IF path = << >> THEN <<object>>
  ELSE IF object.kind # "object" THEN << >>
  ELSE LET next == GetOpt(object.fields, Head(path))
       IN IF next = << >> THEN << >> ELSE get(next[1], Tail(path))

\* ErrorWrapper.forMaybeCombinedError: no wrapper without an error
forMaybeCombinedError(error) ==
  IF error = << >> THEN << >>
  ELSE <<[kind |-> "ErrorWrapper", from |-> "CombinedError", errors |-> <<error[1]>>]>>

\* ErrorWrapper.forErrorsResponse: the wrapper of a payload's errors
forErrorsResponse(errors) ==
  <<[kind |-> "ErrorWrapper", from |-> "errorsResponse", errors |-> errors]>>

\* hydrateRecord: the GadgetRecord of the selected model data
hydrateRecord(data) == [kind |-> "GadgetRecord", data |-> data]

\* action.paramOnlyVariables?.includes(key)
IsParamOnly(act, key) ==
  /\ act.paramOnlyVariables # << >>
  /\ \E i \in 1..Len(act.paramOnlyVariables[1]) : act.paramOnlyVariables[1][i] = key

\* the argument check with Array.prototype.every in place of some
InvalidArguments_Every(act, variables) ==
  /\ act.hasAmbiguousIdentifier
  /\ Keys(variables) # {}
  /\ \A key \in Keys(variables) : ~IsParamOnly(act, key) /\ key # act.modelApiIdentifier

\* the check under action.hasAmbiguousIdentifier that throws `Invalid arguments`
InvalidArguments(act, variables) ==
  /\ act.hasAmbiguousIdentifier
  /\ \E key \in Keys(variables) : ~IsParamOnly(act, key) /\ key # act.modelApiIdentifier

\* Object.entries(action.variables).find(key === "id" && value.type === "GadgetID")
idVariable(act) ==
  IF Has(act.variables, "id") /\ Get(act.variables, "id").type = "GadgetID"
    THEN <<"id">> ELSE << >>

\* the loop without the special case of the GadgetID-typed id variable
RECURSIVE WrapEntries_IdNested(_, _, _)
WrapEntries_IdNested(act, newVariables, entries) ==
  IF entries = << >> THEN newVariables
  ELSE LET key == Head(entries).k
           value == Head(entries).v
           model == act.modelApiIdentifier
       IN WrapEntries_IdNested(act,
            IF IsParamOnly(act, key) THEN Put(newVariables, key, value)
            ELSE Put(newVariables, model,
                     Object(Put(Get(newVariables, model).fields, key, value))),
            Tail(entries))

\* the loop that distributes the entries of a flat variables object
RECURSIVE WrapEntries(_, _, _)
WrapEntries(act, newVariables, entries) ==
  IF entries = << >> THEN newVariables
  ELSE LET key == Head(entries).k
           value == Head(entries).v
           model == act.modelApiIdentifier
       IN WrapEntries(act,
            IF IsParamOnly(act, key) THEN Put(newVariables, key, value)
            ELSE IF idVariable(act) # << >> /\ key = idVariable(act)[1]
              THEN Put(newVariables, "id", value)
            ELSE Put(newVariables, model,
                     Object(Put(Get(newVariables, model).fields, key, value))),
            Tail(entries))

\* the variables the run function hands to runMutation
NewVariables(act, variables) ==
  IF act.acceptsModelInput \/ act.hasCreateOrUpdateEffect
    THEN IF /\ Has(variables, act.modelApiIdentifier)
            /\ Get(variables, act.modelApiIdentifier).kind \in {"object", "array"}
           THEN variables
           ELSE WrapEntries(act, <<[k |-> act.modelApiIdentifier, v |-> Object(<< >>)]>>,
                            variables)
    ELSE variables

\* processResult hydrating the data whether or not the payload has errors
processResult_KeepsData(result, act) ==
  LET error == forMaybeCombinedError(result.error)
      dataPath == (IF act.namespace # << >> THEN <<act.namespace[1]>> ELSE << >>)
                  \o <<act.operationName>>
      mutationData == IF result.data # << >> THEN get(result.data[1], dataPath) ELSE << >>
      errors == IF mutationData # << >> /\ mutationData[1].kind = "object"
                  THEN GetOpt(mutationData[1].fields, "errors") ELSE << >>
      data == IF act.hasReturnType
                THEN GetOpt(mutationData[1].fields, "result")
                ELSE <<hydrateRecord(GetOpt(mutationData[1].fields, act.modelSelectionField))>>
  IN IF mutationData = << >>
       THEN [fetching |-> result.fetching, error |-> error, data |-> << >>]
     ELSE IF errors # << >> /\ errors[1].items # << >>
       THEN [fetching |-> result.fetching,
             error |-> forErrorsResponse(errors[1].items), data |-> data]
     ELSE [fetching |-> result.fetching, error |-> error, data |-> data]

processResult(result, act) ==
  LET error == forMaybeCombinedError(result.error)
      dataPath == (IF act.namespace # << >> THEN <<act.namespace[1]>> ELSE << >>)
                  \o <<act.operationName>>
      mutationData == IF result.data # << >> THEN get(result.data[1], dataPath) ELSE << >>
      errors == IF mutationData # << >> /\ mutationData[1].kind = "object"
                  THEN GetOpt(mutationData[1].fields, "errors") ELSE << >>
  IN IF mutationData = << >>
       THEN [fetching |-> result.fetching, error |-> error, data |-> << >>]
     ELSE IF errors # << >> /\ errors[1].items # << >>
       THEN [fetching |-> result.fetching,
             error |-> forErrorsResponse(errors[1].items), data |-> << >>]
     ELSE [fetching |-> result.fetching, error |-> error,
           data |-> IF act.hasReturnType
                      THEN GetOpt(mutationData[1].fields, "result")
                      ELSE <<hydrateRecord(GetOpt(mutationData[1].fields,
                                                  act.modelSelectionField))>>]

-----------------------------------------------------------------------------
(* The actions, call variables and responses useAction is run with         *)

\* invocations of runMutation in one behaviour
MaxCalls == 2

ActionVariables ==
  { <<[k |-> "id", v |-> [type |-> "GadgetID"]], [k |-> "user", v |-> [type |-> "UserInput"]],
      [k |-> "p", v |-> [type |-> "String"]]>>,
    <<[k |-> "id", v |-> [type |-> "String"]], [k |-> "user", v |-> [type |-> "UserInput"]],
      [k |-> "p", v |-> [type |-> "String"]]>>,
    <<[k |-> "user", v |-> [type |-> "UserInput"]], [k |-> "p", v |-> [type |-> "String"]]>> }

ActionFunctions ==
  [ operationName : {"updateUser"},
    namespace : {<< >>, <<"ns">>},
    modelApiIdentifier : {"user"},
    modelSelectionField : {"user"},
    variables : ActionVariables,
    paramOnlyVariables : {<< >>, <<<<"p">>>>},
    hasAmbiguousIdentifier : BOOLEAN,
    acceptsModelInput : BOOLEAN,
    hasCreateOrUpdateEffect : BOOLEAN,
    hasReturnType : BOOLEAN ]

\* an object holding the given keys of a key -> value table, in the table's order
Pick(table, keys) == SelectSeq(table, LAMBDA e : e.k \in keys)

\* the variables objects the caller passes: flat field values, a param, an
\* id, and the model identifier with an object, a scalar or null
CallerVariables ==
  {<< >>} \cup
  {Pick(<<[k |-> "id", v |-> String(<<"7">>)], [k |-> "name", v |-> String(<<"n">>)],
          [k |-> "p", v |-> String(<<"q">>)]>>, keys) \o model :
     keys \in SUBSET {"id", "name", "p"},
     model \in {<< >>,
                <<[k |-> "user", v |-> Object(<<[k |-> "name", v |-> String(<<"m">>)]>>)]>>,
                <<[k |-> "user", v |-> String(<<"u">>)]>>,
                <<[k |-> "user", v |-> Null]>>}}

Record == Object(<<[k |-> "id", v |-> String(<<"7">>)]>>)
ExecutionError == Object(<<[k |-> "message", v |-> String(<<"invalid">>)]>>)

\* what the mutation field of a response can hold
Payloads ==
  { Null,
    Object(<<[k |-> "success", v |-> True], [k |-> "user", v |-> Record]>>),
    Object(<<[k |-> "success", v |-> True], [k |-> "errors", v |-> Null], [k |-> "user", v |-> Record]>>),
    Object(<<[k |-> "success", v |-> True], [k |-> "errors", v |-> Array(<< >>)], [k |-> "user", v |-> Record]>>),
    Object(<<[k |-> "success", v |-> False], [k |-> "errors", v |-> Array(<<ExecutionError>>)]>>),
    Object(<<[k |-> "success", v |-> False], [k |-> "errors", v |-> Array(<<ExecutionError>>)],
             [k |-> "user", v |-> Record]>>),
    Object(<<[k |-> "success", v |-> True], [k |-> "result", v |-> Number(42)]>>),
    Object(<<[k |-> "success", v |-> False], [k |-> "errors", v |-> Array(<<ExecutionError>>)],
             [k |-> "result", v |-> Number(42)]>>) }

\* the results runMutation resolves with: data under the operation name, with
\* or without a namespace, and a transport error or none
MutationResults ==
  [ data : {<< >>}
           \cup {<<Object(<<[k |-> "updateUser", v |-> payload]>>)>> : payload \in Payloads}
           \cup {<<Object(<<[k |-> "ns", v |-> Object(<<[k |-> "updateUser", v |-> payload]>>)]>>)>>
                 : payload \in Payloads},
    error : {<< >>, <<"[Network] failed">>} ]

DefaultAction == CHOOSE act \in ActionFunctions : TRUE

-----------------------------------------------------------------------------
(* The mock transport before any execute call                              *)

OperationKeys == {"updateUser", "unknown"}

\* const subjects = {} and no request made
TransportIdle ==
  /\ subjects = [key \in OperationKeys |-> 0]
  /\ streams = << >>
  /\ requests = << >>
  /\ thrown = "none"

-----------------------------------------------------------------------------
(* SignedInOrRedirect before it is mounted                                 *)

\* a session with or without an associated user
Session(user) == [user |-> user]

Sessions == {Session(<< >>), Session(<<"user-1">>)}

\* the `auth` of the configuration context
Auth(signInPath) == [signInPath |-> signInPath]

ComponentUnmounted(s, a) ==
  /\ session = s
  /\ auth = a
  /\ redirected = FALSE
  /\ lastRender = << >>
  /\ effectDeps = << >>
  /\ pendingEffect = FALSE
  /\ assigned = << >>
  /\ renders = 0

\* the component is not part of the behaviour
NoComponent == ComponentUnmounted(<< >>, << >>)

-----------------------------------------------------------------------------
(* useAction as a state machine                                            *)

ActionIdle ==
  /\ pc = "idle"
  /\ callVariables = << >>
  /\ inflight = << >>
  /\ response = << >>
  /\ returned = << >>
  /\ calls = 0

InitAction ==
  /\ action \in ActionFunctions
  /\ ActionIdle
  /\ operation = BuilderOperation(Selection(<< >>))
  /\ compiled = NotCalled
  /\ TransportIdle
  /\ NoComponent

\* the run function up to its await: `variables ??= {}`, the argument check,
\* the wrapping, and the call of runMutation
Run(variables) ==
  /\ pc # "awaiting"
  /\ calls < MaxCalls
  /\ callVariables' = (IF variables = << >> THEN << >> ELSE variables[1])
  /\ response' = << >>
  /\ returned' = << >>
  /\ IF InvalidArguments(action, callVariables')
       THEN /\ pc' = "rejected"
            /\ inflight' = << >>
            /\ UNCHANGED calls
       ELSE /\ pc' = "awaiting"
            /\ inflight' = <<NewVariables(action, callVariables')>>
            /\ calls' = calls + 1
  /\ UNCHANGED <<action, operation, compiled, transportVars, componentVars>>

\* runMutation resolves: the run function returns processResult of the result
Respond(result) ==
  /\ pc = "awaiting"
  /\ pc' = "resolved"
  /\ response' = <<result>>
  /\ returned' = <<processResult([fetching |-> FALSE, data |-> result.data,
                                  error |-> result.error], action)>>
  /\ inflight' = << >>
  /\ callVariables' = << >>
  /\ UNCHANGED <<action, calls, operation, compiled, transportVars, componentVars>>

NextAction ==
  \/ \E variables \in {<< >>} \cup {<<v>> : v \in CallerVariables} : Run(variables)
  \/ \E result \in MutationResults : Respond(result)

SpecAction == InitAction /\ [][NextAction]_vars

-----------------------------------------------------------------------------
(* The compiler as a state machine: an operation is built, then compiled   *)

InitCompiler ==
  /\ operation \in {BuilderOperation(f) : f \in FieldSelections}
  /\ compiled = NotCalled
  /\ action = DefaultAction
  /\ ActionIdle
  /\ TransportIdle
  /\ NoComponent

Compile(onlyPresentVariableValues) ==
  /\ compiled' = LET r == compile(operation, onlyPresentVariableValues)
                 IN [call |-> "compile",
                     onlyPresentVariableValues |-> onlyPresentVariableValues,
                     threw |-> r.threw, query |-> r.text, variables |-> << >>]
  /\ UNCHANGED <<operation, actionVars, transportVars, componentVars>>

CompileWithVariableValues ==
  /\ compiled' = LET r == compileWithVariableValues(operation)
                 IN [call |-> "compileWithVariableValues",
                     onlyPresentVariableValues |-> TRUE,
                     threw |-> r.threw, query |-> r.query, variables |-> r.variables]
  /\ UNCHANGED <<operation, actionVars, transportVars, componentVars>>

NextCompiler ==
  \/ \E onlyPresentVariableValues \in BOOLEAN : Compile(onlyPresentVariableValues)
  \/ CompileWithVariableValues

SpecCompiler == InitCompiler /\ [][NextCompiler]_vars

-----------------------------------------------------------------------------
(* The mock transport: newMockOperationFn and its pushResponse             *)

MaxRequests == 3

\* makeErrorResult(null, new Error("AbortError"))
AbortErrorResult == [data |-> << >>, error |-> <<"AbortError">>]

\* the responses a test pushes: data, or a transport failure
Responses == {[data |-> <<"record">>, error |-> << >>],
              [data |-> << >>, error |-> <<"NetworkError">>]}

\* makeSubject(): nothing emitted, not completed
makeSubject == [events |-> << >>, ended |-> FALSE]

\* subject.next(value): emitted to the sinks unless the subject has completed
SubjectNext(all, s, value) ==
  IF all[s].ended THEN all
  ELSE [all EXCEPT ![s].events = Append(@, value)]

\* subject.complete()
SubjectComplete(all, s) == [all EXCEPT ![s].ended = TRUE]

InitTransport ==
  /\ TransportIdle
  /\ operation = BuilderOperation(Selection(<< >>))
  /\ compiled = NotCalled
  /\ action = DefaultAction
  /\ ActionIdle
  /\ NoComponent

\* fn(request, options): the subject of the key is made if there is none, an
\* abort listener is added when fetchOptions carries a signal, and the source
\* of the subject is returned
Execute(key, withSignal) ==
  /\ Len(requests) < MaxRequests
  /\ LET made == subjects[key] = 0
         s == IF made THEN Len(streams) + 1 ELSE subjects[key]
     IN /\ subjects' = [subjects EXCEPT ![key] = s]
        /\ streams' = IF made THEN Append(streams, makeSubject) ELSE streams
        /\ requests' = Append(requests,
                          [key |-> key, subject |-> s,
                           signal |-> IF withSignal THEN "armed" ELSE "none"])
  /\ thrown' = "none"
  /\ UNCHANGED <<compilerVars, actionVars, componentVars>>

\* the signal of request r fires its abort event; the listener reads
\* subjects[key] when it runs, and calling next on undefined is a TypeError
Abort(r) ==
  /\ requests[r].signal = "armed"
  /\ requests' = [requests EXCEPT ![r].signal = "aborted"]
  /\ LET s == subjects[requests[r].key]
     IN IF s = 0
          THEN /\ thrown' = "TypeError"
               /\ UNCHANGED streams
          ELSE /\ thrown' = "none"
               /\ streams' = SubjectNext(streams, s, AbortErrorResult)
  /\ UNCHANGED <<subjects, compilerVars, actionVars, componentVars>>

\* fn.pushResponse(key, response)
PushResponse(key, pushed) ==
  /\ IF subjects[key] = 0
       THEN /\ thrown' = "Error"
            /\ UNCHANGED <<subjects, streams>>
       ELSE /\ thrown' = "none"
            /\ streams' = SubjectComplete(SubjectNext(streams, subjects[key], pushed),
                                          subjects[key])
            /\ subjects' = [subjects EXCEPT ![key] = 0]
  /\ UNCHANGED <<requests, compilerVars, actionVars, componentVars>>

NextTransport ==
  \/ \E key \in OperationKeys, withSignal \in BOOLEAN : Execute(key, withSignal)
  \/ \E r \in 1..Len(requests) : Abort(r)
  \/ \E key \in OperationKeys, pushed \in Responses : PushResponse(key, pushed)

SpecTransport == InitTransport /\ [][NextTransport]_vars

-----------------------------------------------------------------------------
(* SignedInOrRedirect: renders, effects and session changes                *)

MaxRenders == 4

SignInPaths == {"/sign-in", "/auth/login"}

\* isSessionSignedIn(session): the session has an associated user
isSessionSignedIn(s) == s.user # << >>

\* const isSignedIn = session && isSessionSignedIn(session): the session
\* itself when it is undefined, otherwise a boolean
isSignedIn(s) == IF s = << >> THEN << >> ELSE <<isSessionSignedIn(s[1])>>

\* the dependency list of the effect, as seen by a render, without isSignedIn
EffectDeps_NoSession(render) == <<render.redirected, render.auth>>

\* the dependency list of the effect, as seen by a render
EffectDeps(render) == <<render.redirected, render.isSignedIn, render.auth>>

InitComponent ==
  /\ \E s \in {<< >>} \cup {<<x>> : x \in Sessions},
        a \in {<< >>} \cup {<<Auth(path)>> : path \in SignInPaths} :
       ComponentUnmounted(s, a)
  /\ operation = BuilderOperation(Selection(<< >>))
  /\ compiled = NotCalled
  /\ action = DefaultAction
  /\ ActionIdle
  /\ TransportIdle

\* the session store gives useSession another value
SessionChange(s) ==
  /\ s # session
  /\ session' = s
  /\ UNCHANGED <<auth, redirected, lastRender, effectDeps, pendingEffect, assigned, renders>>
  /\ UNCHANGED <<compilerVars, actionVars, transportVars>>

\* the component function runs (mount, state or session change, or a render
\* of the parent): it reads its state, the session and the context, and
\* returns the children or null; its effect is left to run when the
\* component mounts or a dependency differs from the last committed ones.
\* The effects of a render are flushed before the next render starts.
Render ==
  /\ ~pendingEffect
  /\ renders < MaxRenders
  /\ LET render == [redirected |-> redirected,
                    session |-> session,
                    isSignedIn |-> isSignedIn(session),
                    auth |-> auth,
                    output |-> IF isSignedIn(session) = <<TRUE>> THEN "children" ELSE "null"]
     IN /\ lastRender' = <<render>>
        /\ pendingEffect' = (effectDeps = << >> \/ effectDeps[1] # EffectDeps(render))
        /\ effectDeps' = <<EffectDeps(render)>>
  /\ renders' = renders + 1
  /\ UNCHANGED <<session, auth, redirected, assigned>>
  /\ UNCHANGED <<compilerVars, actionVars, transportVars>>

\* the effect of the last render runs with the values that render read
RunEffect ==
  /\ pendingEffect
  /\ pendingEffect' = FALSE
  /\ LET render == lastRender[1]
     IN IF render.auth # << >> /\ ~render.redirected /\ render.isSignedIn # <<TRUE>>
          THEN /\ redirected' = TRUE
               /\ assigned' = Append(assigned, render.auth[1].signInPath)
          ELSE UNCHANGED <<redirected, assigned>>
  /\ UNCHANGED <<session, auth, lastRender, effectDeps, renders>>
  /\ UNCHANGED <<compilerVars, actionVars, transportVars>>

NextComponent ==
  \/ \E s \in {<< >>} \cup {<<x>> : x \in Sessions} : SessionChange(s)
  \/ Render
  \/ RunEffect

SpecComponent == InitComponent /\ [][NextComponent]_vars

-----------------------------------------------------------------------------
(* Reading a selection tree and a compiled document                        *)

\* every Variable the body compiler renders, in traversal order, with the name
\* of the argument that passes it: the arguments of a FieldCall, then its
\* subselection; the entries of a nested FieldSelection
RECURSIVE WalkedVariables(_)
RECURSIVE WalkedInFields(_)
WalkedInFields(entries) ==
  IF entries = << >> THEN << >>
  ELSE WalkedVariables(Head(entries).v) \o WalkedInFields(Tail(entries))

WalkedVariables(value) ==
  IF value.kind = "FieldSelection" THEN WalkedInFields(value.fields)
  ELSE IF value.kind = "FieldCall"
    THEN SelectSeq(value.args, LAMBDA e : e.v.kind = "Variable")
         \o (IF value.subselection # << >> THEN WalkedVariables(value.subselection[1]) ELSE << >>)
  ELSE << >>

\* the same, leaving out the subselections of the FieldCalls
RECURSIVE VariablesOutsideSubselections(_)
RECURSIVE OutsideInFields(_)
OutsideInFields(entries) ==
  IF entries = << >> THEN << >>
  ELSE VariablesOutsideSubselections(Head(entries).v) \o OutsideInFields(Tail(entries))

VariablesOutsideSubselections(value) ==
  IF value.kind = "FieldSelection" THEN OutsideInFields(value.fields)
  ELSE IF value.kind = "FieldCall"
    THEN SelectSeq(value.args, LAMBDA e : e.v.kind = "Variable")
  ELSE << >>

\* all the values of a tree: the tree, the values of its fields, and theirs
RECURSIVE ValuesIn(_)
ValuesIn(value) ==
  {value} \cup
  (IF value.kind = "FieldSelection"
     THEN UNION {ValuesIn(value.fields[i].v) : i \in 1..Len(value.fields)}
   ELSE IF value.kind = "FieldCall" /\ value.subselection # << >>
     THEN ValuesIn(value.subselection[1])
   ELSE {})

KindsIn(value) == {v.kind : v \in ValuesIn(value)}

HasFieldCall(value) == "FieldCall" \in KindsIn(value)
HasNullish(value) == KindsIn(value) \cap {"null", "undefined"} # {}
HasNumber(value) == "number" \in KindsIn(value)
HasNonEmptyString(value) == \E v \in ValuesIn(value) : v.kind = "string" /\ v.chars # << >>
OnlyAllowedShapes(value) == KindsIn(value) \subseteq {"boolean", "FieldSelection", "FieldCall"}

\* the tokens of a class in a line
TokensOf(line, class) == SelectSeq(line, LAMBDA tok : tok.t = class)

\* the names the first line of a document declares
Declared(query) == TokensOf(query[1], "vardecl")
DeclaredNames(query) == {Declared(query)[i].s : i \in 1..Len(Declared(query))}

\* the lines between the first line and the closing brace
Body(query) == SubSeq(query, 2, Len(query) - 1)

\* the `$name` references of the body, line after line
RECURSIVE References(_)
References(lines) ==
  IF lines = << >> THEN << >> ELSE TokensOf(Head(lines), "varref") \o References(Tail(lines))

\* the arguments rendered in the body, line after line
RECURSIVE RenderedArgs(_)
RenderedArgs(lines) ==
  IF lines = << >> THEN << >> ELSE TokensOf(Head(lines), "arg") \o RenderedArgs(Tail(lines))

Returned == compiled.call # "none" /\ compiled.threw = "none"

-----------------------------------------------------------------------------
(* Claims about the compiler, checked under SpecCompiler                   *)

\* C1: two distinct Variables without an explicit name, both passed under the
\* argument name `id` (in sibling fields or at different nesting depths), are
\* named `id` and `id1` in traversal order: the signature declares $id and
\* $id1, and the returned map holds the first value under id, the second
\* under id1.  Stated for trees whose Variables lie outside FieldCall
\* subselections and are kept by the presence filter.
C1_CollidingNamesSuffixed ==
  LET vs == WalkedVariables(operation.fields)
  IN (/\ Returned
      /\ Len(vs) = 2
      /\ VariablesOutsideSubselections(operation.fields) = vs
      /\ \A i \in 1..Len(vs) : vs[i].k = "id" /\ vs[i].v.name = << >>
      /\ compiled.onlyPresentVariableValues => \A i \in 1..Len(vs) : present(vs[i].v))
     => /\ DeclaredNames(compiled.query) = {"$id", "$id1"}
        /\ compiled.call = "compileWithVariableValues"
             => compiled.variables = <<[k |-> "id", v |-> vs[1].v.value],
                                       [k |-> "id1", v |-> vs[2].v.value]>>

\* C2: the keys of the variables map returned by compileWithVariableValues are
\* exactly the names the signature of the returned query declares, one
\* declaration per key, and every value of the map is non-null.
C2_VariablesMatchSignature ==
  (compiled.call = "compileWithVariableValues" /\ compiled.threw = "none")
  => /\ {"$" \o key : key \in Keys(compiled.variables)} = DeclaredNames(compiled.query)
     /\ Len(Declared(compiled.query)) = Len(compiled.variables)
     /\ \A i \in 1..Len(compiled.variables) : compiled.variables[i].v # << >>

\* C2 witness: compileWithVariableValues returned two variables for a tree
\* that also passes a Variable without a value
C2_Witness ==
  /\ compiled.call = "compileWithVariableValues" /\ compiled.threw = "none"
  /\ Len(compiled.variables) = 2
  /\ \E i \in 1..Len(WalkedVariables(operation.fields)) :
       ~present(WalkedVariables(operation.fields)[i].v)

\* C3: with onlyPresentVariableValues, a Variable without a value is left out
\* of the signature, of the returned map and of the rendered arguments, and a
\* Variable with a value is kept in all three.  Stated for trees that pass
\* exactly one Variable.
C3_PresenceFilterKeepsPresent ==
  LET vs == WalkedVariables(operation.fields)
      kept == SelectSeq(vs, LAMBDA e : present(e.v))
  IN (Returned /\ compiled.onlyPresentVariableValues /\ Len(vs) = 1)
     => /\ Len(Declared(compiled.query)) = Len(kept)
        /\ Len(References(Body(compiled.query))) = Len(kept)
        /\ compiled.call = "compileWithVariableValues"
             => [i \in 1..Len(compiled.variables) |-> compiled.variables[i].v]
                = [i \in 1..Len(kept) |-> kept[i].v.value]

\* the names extraction can give a Variable: its explicit name, or the name
\* of its argument with an optional numeric suffix
CandidateNames(e, n) ==
  IF e.v.name # << >> THEN {"$" \o e.v.name[1]}
  ELSE {"$" \o e.k} \cup {"$" \o e.k \o ToString(c) : c \in 1..n}

\* C4: every Variable reachable through FieldCall arguments anywhere the body
\* compiler walks (nested FieldSelections and FieldCall subselections
\* included) is declared in the signature of the compiled document (when it
\* has a value, under presence filtering).
C4_EveryWalkedVariableDeclared ==
  LET vs == WalkedVariables(operation.fields)
  IN Returned
     => \A i \in 1..Len(vs) :
          (compiled.onlyPresentVariableValues => present(vs[i].v))
          => CandidateNames(vs[i], Len(vs)) \cap DeclaredNames(compiled.query) # {}

\* the tree with every null or undefined field set to false
RECURSIVE NullishAsFalse(_)
NullishAsFalse(value) ==
  IF value.kind \in {"null", "undefined"} THEN False
  ELSE IF value.kind = "FieldSelection"
    THEN Selection([i \in 1..Len(value.fields) |->
                      [k |-> value.fields[i].k, v |-> NullishAsFalse(value.fields[i].v)]])
  ELSE IF value.kind = "FieldCall" /\ value.subselection # << >>
    THEN Call(value.args, <<NullishAsFalse(value.subselection[1])>>)
  ELSE value

\* C5: a field mapped to null or undefined is treated as a field mapped to
\* false: compile returns normally, with the output of the same selection
\* with that field set to false.
C5_NullishTreatedAsFalse ==
  (/\ compiled.call = "compile"
   /\ HasNullish(operation.fields)
   /\ KindsIn(operation.fields) \subseteq
        {"boolean", "FieldSelection", "FieldCall", "null", "undefined"})
  => LET asFalse == compile([operation EXCEPT !.fields = NullishAsFalse(@)],
                            compiled.onlyPresentVariableValues)
     IN compiled.threw = "none" /\ compiled.query = asFalse.text

\* the number of leading indentation units of a line
RECURSIVE IndentOf(_)
IndentOf(line) ==
  IF line # << >> /\ Head(line) = Indent THEN 1 + IndentOf(Tail(line)) ELSE 0

Event(kind, path, indent) == [kind |-> kind, path |-> path, indent |-> indent]

\* the body read back line by line: a field, the opening of a block, or the
\* closing of the innermost open block, each with its path and indentation
RECURSIVE ParseBody(_, _)
ParseBody(lines, stack) ==
  IF lines = << >>
    THEN IF stack = << >> THEN << >> ELSE <<Event("unclosed", stack, 0)>>
  ELSE LET n == IndentOf(Head(lines))
           rest == SubSeq(Head(lines), n + 1, Len(Head(lines)))
       IN IF Len(rest) = 1 /\ rest[1].t = "name"
            THEN <<Event("field", stack \o <<rest[1].s>>, n)>> \o ParseBody(Tail(lines), stack)
          ELSE IF Len(rest) = 2 /\ rest[1].t = "name" /\ rest[2] = Tok("open", " {")
            THEN <<Event("open", stack \o <<rest[1].s>>, n)>>
                 \o ParseBody(Tail(lines), stack \o <<rest[1].s>>)
          ELSE IF rest = <<Tok("close", "}")>> /\ stack # << >>
            THEN <<Event("close", stack, n)>>
                 \o ParseBody(Tail(lines), SubSeq(stack, 1, Len(stack) - 1))
          ELSE <<Event("unreadable", stack, n)>>

\* what a selection of booleans and nested selections asks for: each field
\* mapped to true under the path of its parents, one indentation unit per
\* level; nothing for a field mapped to false
RECURSIVE Selected(_, _)
RECURSIVE SelectedInFields(_, _)
SelectedInFields(entries, path) ==
  IF entries = << >> THEN << >>
  ELSE LET here == path \o <<Head(entries).k>>
           value == Head(entries).v
       IN (IF value.kind = "boolean"
             THEN IF value.b THEN <<Event("field", here, Len(here))>> ELSE << >>
             ELSE <<Event("open", here, Len(here))>> \o Selected(value, here)
                  \o <<Event("close", here, Len(here))>>)
          \o SelectedInFields(Tail(entries), path)

Selected(selection, path) == SelectedInFields(selection.fields, path)

\* C6: for a selection of booleans and nested selections only, the compiled
\* document holds exactly the fields mapped to true, each inside the
\* `name { ... }` braces of its parents and indented one unit per nesting
\* level; a field mapped to false yields no line; there is no variable
\* signature.
C6_BooleanSelectionsCompile ==
  (/\ compiled.call = "compile"
   /\ KindsIn(operation.fields) \subseteq {"boolean", "FieldSelection"})
  => /\ compiled.threw = "none"
     /\ compiled.query[1] = <<Tok("keyword", operation.type), Tok("space", " "),
                              Tok("opname", ""), Tok("open", " {")>>
     /\ compiled.query[Len(compiled.query)] = <<Tok("close", "}")>>
     /\ ParseBody(Body(compiled.query), << >>) = Selected(operation.fields, << >>)

\* C6 witness: a compiled selection with a field mapped to false and a field
\* mapped to true two levels down
C6_Witness ==
  /\ compiled.call = "compile" /\ compiled.threw = "none"
  /\ KindsIn(operation.fields) \subseteq {"boolean", "FieldSelection"}
  /\ False \in ValuesIn(operation.fields)
  /\ \E i \in 1..Len(Body(compiled.query)) :
       IndentOf(Body(compiled.query)[i]) = 2 /\ Len(Body(compiled.query)[i]) = 3
       /\ Body(compiled.query)[i][3].t = "name"

\* C7 (as claimed): a leaf that is a number or a string makes compile raise
\* an error instead of returning a document.
C7_MalformedLeafRaises ==
  (/\ compiled.call = "compile"
   /\ \E v \in ValuesIn(operation.fields) : v.kind \in {"number", "string"})
  => compiled.threw # "none"

\* the tree with every number and every empty string replaced by {}
RECURSIVE EntrylessAsEmptySelection(_)
EntrylessAsEmptySelection(value) ==
  IF value.kind = "number" \/ (value.kind = "string" /\ value.chars = << >>)
    THEN Selection(<< >>)
  ELSE IF value.kind = "FieldSelection"
    THEN Selection([i \in 1..Len(value.fields) |->
                      [k |-> value.fields[i].k, v |-> EntrylessAsEmptySelection(value.fields[i].v)]])
  ELSE IF value.kind = "FieldCall" /\ value.subselection # << >>
    THEN Call(value.args, <<EntrylessAsEmptySelection(value.subselection[1])>>)
  ELSE value

\* C7 (amended): compile has no shape check.  A leaf that is a number (or
\* the empty string) is compiled as the empty nested selection {} would be,
\* `name {` and `}`, and raises nothing by itself; a leaf that is a non-empty
\* string makes compile raise (a RangeError, from unbounded recursion).
C7_MalformedLeafCompiledAsEmpty ==
  compiled.call = "compile"
  => LET asEmpty == compile([operation EXCEPT !.fields = EntrylessAsEmptySelection(@)],
                            compiled.onlyPresentVariableValues)
     IN /\ compiled.threw = asEmpty.threw
        /\ compiled.query = asEmpty.text
        /\ HasNonEmptyString(operation.fields) => compiled.threw # "none"
        /\ (HasNumber(operation.fields) /\ ~HasNullish(operation.fields)
            /\ ~HasNonEmptyString(operation.fields)) => compiled.threw = "none"

\* C7 witness: compile returned a document for a selection with a number leaf
C7_Witness ==
  /\ compiled.call = "compile" /\ compiled.threw = "none"
  /\ HasNumber(operation.fields)
  /\ Len(compiled.query) = 4

\* C7 witness of the other half: compile raised on a non-empty string leaf
C7_WitnessString ==
  /\ compiled.call = "compile" /\ compiled.threw = "RangeError"
  /\ HasNonEmptyString(operation.fields)

-----------------------------------------------------------------------------
(* Claims about useAction, checked under SpecAction                        *)

\* the payload of a response at the operation name, under the namespace of
\* the action if it has one
PayloadAt(result, act) ==
  IF result.data = << >> THEN << >>
  ELSE LET scope == IF act.namespace = << >> THEN result.data
                    ELSE GetOpt(result.data[1].fields, act.namespace[1])
       IN IF scope = << >> \/ scope[1].kind # "object" THEN << >>
          ELSE LET payload == GetOpt(scope[1].fields, act.operationName)
               IN IF payload # << >> /\ payload[1].kind = "object" THEN payload ELSE << >>

\* the `errors` array of a payload, if it has one
ErrorsOf(payload) ==
  IF Has(payload.fields, "errors") /\ Get(payload.fields, "errors").kind = "array"
    THEN <<Get(payload.fields, "errors").items>>
    ELSE << >>

\* what a payload without errors gives as data
DataOf(payload, act) ==
  IF act.hasReturnType
    THEN GetOpt(payload.fields, "result")
    ELSE <<hydrateRecord(GetOpt(payload.fields, act.modelSelectionField))>>

FromFieldErrors(error) == error # << >> /\ error[1].from = "errorsResponse"

\* C8 (as claimed): a payload with an `errors` array gives data null and a
\* populated structured error; a payload with a direct result and no errors
\* array gives the hydrated record (or `result`) and error null; data is never
\* non-null together with an error derived from field errors.
C8_ErrorsOrData ==
  pc = "resolved"
  => LET payload == PayloadAt(response[1], action)
         state == returned[1]
     IN /\ (payload # << >> /\ ErrorsOf(payload[1]) # << >>)
             => state.data = << >> /\ FromFieldErrors(state.error)
        /\ (payload # << >> /\ ErrorsOf(payload[1]) = << >>)
             => state.data = DataOf(payload[1], action) /\ state.error = << >>
        /\ ~(state.data # << >> /\ FromFieldErrors(state.error))

\* C8 (amended): a payload with a non-empty `errors` array gives data null
\* and the structured error of those errors; a payload with no `errors`
\* array, or an empty one, gives the hydrated record (or `result`) together
\* with the wrapped transport error of the result, which is absent exactly
\* when the result has no error; data is never non-null together with an
\* error derived from field errors.
C8_ErrorsOrDataAmended ==
  pc = "resolved"
  => LET payload == PayloadAt(response[1], action)
         state == returned[1]
         errors == IF payload # << >> /\ ErrorsOf(payload[1]) # << >>
                     THEN ErrorsOf(payload[1])[1] ELSE << >>
     IN /\ (payload # << >> /\ errors # << >>)
             => /\ state.data = << >>
                /\ FromFieldErrors(state.error)
                /\ state.error[1].errors = errors
        /\ (payload # << >> /\ errors = << >>)
             => /\ state.data = DataOf(payload[1], action)
                /\ (state.error = << >>) <=> (response[1].error = << >>)
                /\ state.error # << >> => state.error[1].errors = response[1].error
        /\ ~(state.data # << >> /\ FromFieldErrors(state.error))

\* C8 witness: a namespaced action resolved with a payload carrying errors
\* next to a record: the record is withheld
C8_Witness ==
  /\ pc = "resolved"
  /\ action.namespace # << >>
  /\ PayloadAt(response[1], action) # << >>
  /\ ErrorsOf(PayloadAt(response[1], action)[1]) = <<<<ExecutionError>>>>
  /\ Has(PayloadAt(response[1], action)[1].fields, "user")
  /\ returned[1].data = << >>
  /\ FromFieldErrors(returned[1].error)

ParamOnlySet(act) ==
  IF act.paramOnlyVariables = << >> THEN {}
  ELSE {act.paramOnlyVariables[1][i] : i \in 1..Len(act.paramOnlyVariables[1])}

\* the top-level keys that are neither param-only nor the model identifier
UnexpectedKeys(act, variables) ==
  Keys(variables) \ (ParamOnlySet(act) \cup {act.modelApiIdentifier})

\* a step of the run function: it starts in any state but "awaiting"
RunStep == pc # "awaiting" /\ pc' \in {"awaiting", "rejected"}

\* C9 (as claimed): a call whose variables hold a top-level key that is
\* neither a param-only variable nor the model identifier is rejected before
\* dispatch: runMutation is not invoked for it.
C9_UnexpectedKeysRejected ==
  [][(RunStep /\ UnexpectedKeys(action, callVariables') # {})
     => (pc' = "rejected" /\ calls' = calls /\ inflight' = << >>)]_vars

\* C9 (amended): for an action with an ambiguous identifier
\* (hasAmbiguousIdentifier), a call whose variables hold a top-level key that
\* is neither a param-only variable nor the model identifier is rejected
\* before dispatch: runMutation is not invoked for it.
C9_AmbiguousUnexpectedKeysRejected ==
  [][(RunStep /\ action.hasAmbiguousIdentifier /\ UnexpectedKeys(action, callVariables') # {})
     => (pc' = "rejected" /\ calls' = calls /\ inflight' = << >>)]_vars

\* C9 witness: a call with an unexpected key was rejected after an earlier
\* call had been dispatched, and runMutation was invoked once only
C9_Witness ==
  /\ pc = "rejected"
  /\ action.hasAmbiguousIdentifier
  /\ "name" \in UnexpectedKeys(action, callVariables)
  /\ Has(callVariables, action.modelApiIdentifier)
  /\ calls = 1
  /\ inflight = << >>

\* C10: for an action that accepts model input, the dispatched variables are
\* the caller's object unchanged when it has the nested shape
\* { modelIdentifier: {...} }; otherwise every caller key appears exactly
\* once, with its value: param-only variables and a GadgetID-typed `id`
\* variable at top level, every other key under the model identifier.
C10_ModelInputWrapped ==
  (pc = "awaiting" /\ action.acceptsModelInput)
  => LET sent == inflight[1]
         model == action.modelApiIdentifier
         top == {key \in Keys(callVariables) :
                   \/ key \in ParamOnlySet(action)
                   \/ /\ key = "id"
                      /\ \E i \in 1..Len(action.variables) :
                           action.variables[i] = [k |-> "id", v |-> [type |-> "GadgetID"]]}
         under == Keys(callVariables) \ top
     IN IF Has(callVariables, model) /\ Get(callVariables, model).kind = "object"
          THEN sent = callVariables
          ELSE /\ Keys(sent) = top \cup {model}
               /\ Len(sent) = Cardinality(Keys(sent))
               /\ Get(sent, model).kind = "object"
               /\ Keys(Get(sent, model).fields) = under
               /\ Len(Get(sent, model).fields) = Cardinality(under)
               /\ \A key \in top : Get(sent, key) = Get(callVariables, key)
               /\ \A key \in under : Get(Get(sent, model).fields, key) = Get(callVariables, key)

\* C10 witness: a flat object with an id, a field and a param was dispatched
\* with the id and the param at top level and the field under the model
C10_Witness ==
  /\ pc = "awaiting" /\ action.acceptsModelInput
  /\ Keys(callVariables) = {"id", "name", "p"}
  /\ Keys(inflight[1]) = {"user", "id", "p"}
  /\ Keys(Get(inflight[1], "user").fields) = {"name"}

-----------------------------------------------------------------------------
(* Claims about the mock transport, checked under SpecTransport            *)

\* the abort signal of request r fires in this step
AbortFires(r) ==
  /\ requests[r].signal = "armed"
  /\ Len(requests') = Len(requests)
  /\ requests'[r].signal = "aborted"

\* the response for the request has been pushed: its stream has completed
ResponsePushed(r) == streams[requests[r].subject].ended

\* C11: when the abort signal supplied with a request fires, an error result
\* is delivered on the result stream of that request; when it fires only
\* after the response for the key was pushed (stream completed, subject
\* removed), nothing changes and no exception is raised.
C11_AbortDeliversErrorOrNothing ==
  [][\A r \in 1..Len(requests) :
       AbortFires(r)
       => IF ResponsePushed(r)
            THEN /\ streams' = streams
                 /\ subjects' = subjects
                 /\ thrown' = "none"
            ELSE LET s == requests[r].subject
                 IN streams'[s].events = Append(streams[s].events, AbortErrorResult)]_vars

-----------------------------------------------------------------------------
(* Claims about SignedInOrRedirect, checked under SpecComponent            *)

\* the session a render read is signed in
SignedIn(s) == s # << >> /\ s[1].user # << >>

\* C12: the children are rendered exactly in the renders where the session
\* is signed in; once the effects of a render that found the session not
\* signed in and an auth configuration present have run, the browser has
\* been redirected with window.location.assign(auth.signInPath); and
\* window.location.assign is invoked at most once.
C12_ChildrenOrRedirectOnce ==
  /\ lastRender # << >>
       => (lastRender[1].output = "children" <=> SignedIn(lastRender[1].session))
  /\ (lastRender # << >> /\ ~pendingEffect
        /\ ~SignedIn(lastRender[1].session) /\ lastRender[1].auth # << >>)
       => /\ assigned # << >>
          /\ assigned[1] = lastRender[1].auth[1].signInPath
  /\ Len(assigned) <= 1

\* C12 witness: the browser was redirected, and a later render that read
\* `redirected` set and a session still not signed in returned null and
\* redirected no further
C12_Witness ==
  /\ renders >= 3
  /\ ~pendingEffect
  /\ lastRender[1].output = "null"
  /\ ~SignedIn(lastRender[1].session)
  /\ lastRender[1].redirected
  /\ assigned = <<"/sign-in">>

-----------------------------------------------------------------------------
(* A further claim about the compiler, checked under SpecCompiler          *)

\* C13: every `$name` reference rendered in the body of a compiled document
\* is declared in the signature of that document, with and without presence
\* filtering, also when names collide and are suffixed and when a colliding
\* Variable is dropped by the presence filter.
C13_EveryReferenceDeclared ==
  Returned
  => LET refs == References(Body(compiled.query))
     IN \A i \in 1..Len(refs) : refs[i].s \in DeclaredNames(compiled.query)

====
